---- MODULE Spec2Model ----
(***************************************************************************)
(* A model of the TopSecret class of src/index.js: one instance holding a  *)
(* key and a password, its encrypt/decrypt operations over buffers, JSON   *)
(* values and files, and the callers of src/unnamed/part_000 (the test     *)
(* suite).                                                                 *)
(*                                                                         *)
(* Representation.  A Buffer is a sequence of bytes (0..255).  A JS string *)
(* is a sequence of code points.  null is the sequence Null, which is      *)
(* neither a Buffer nor a string.  An exception is a record                *)
(* [name, message]; NoError stands for normal completion.                  *)
(*                                                                         *)
(* The library primitives the class calls are modelled by what they do to  *)
(* the bytes: hex, UTF-8 and base64 are the real encodings; CBC chaining   *)
(* and PKCS#7 padding are the real constructions; the AES block function   *)
(* and SHA-256 are replaced by a keyed permutation of 16-byte blocks and a *)
(* deterministic 32-byte digest (the class relies on nothing else about    *)
(* them); crypto.randomBytes is a nondeterministic choice from a finite    *)
(* set of samples.                                                         *)
(***************************************************************************)
EXTENDS Integers, Sequences, FiniteSets, TLC

\* ------------------------------------------------------------------------
\* Program constants
\* ------------------------------------------------------------------------

\* crypto.randomBytes(32): the key is 32 bytes.
KeyLen == 32

\* crypto.randomBytes(16): the IV is 16 bytes; buffer.slice(0, 16).
IVLen == 16

\* The block size of "aes-256-cbc".
BlockSize == 16

\* value.length !== 64 in the key setter.
KeyHexLen == 64

\* ------------------------------------------------------------------------
\* Bounds of the model
\* ------------------------------------------------------------------------

\* Number of distinct values crypto.randomBytes(32) can return.
NumRandomKeys == 2

\* Number of distinct values crypto.randomBytes(16) can return.
NumIVs == 2

\* Number of sample plaintext buffers the caller encrypts.
NumBuffers == 3

\* Number of sample JSON values the caller encrypts.
NumJSON == 3

\* ------------------------------------------------------------------------
\* Values
\* ------------------------------------------------------------------------

Null == <<-1>>

RECURSIVE XorBits(_, _)
XorBits(a, b) ==
  IF a = 0 THEN b
  ELSE IF b = 0 THEN a
  ELSE (((a % 2) + (b % 2)) % 2) + 2 * XorBits((a \div 2), (b \div 2))

\* The exclusive or of two 4-bit values, tabulated.
XorNibble == [a \in 0..15 |-> [b \in 0..15 |-> XorBits(a, b)]]

\* a ^ b on bytes.
BitXor(a, b) ==
  16 * XorNibble[a \div 16][b \div 16] + XorNibble[a % 16][b % 16]

XorBytes(x, y) == [j \in 1..Len(x) |-> BitXor(x[j], y[j])]

RECURSIVE Flatten(_)
Flatten(ss) == IF ss = <<>> THEN <<>> ELSE Head(ss) \o Flatten(Tail(ss))

\* buffer.slice(start) and buffer.slice(0, end): clamped to the length.
SliceFrom(buf, start) ==
  IF start >= Len(buf) THEN <<>> ELSE SubSeq(buf, start + 1, Len(buf))

SliceTo(buf, end) ==
  IF end >= Len(buf) THEN buf ELSE SubSeq(buf, 1, end)

\* An exception value, and the absence of one.
Exception(name, message) == [name |-> name, message |-> message]

NoError == Exception("", "")

\* ------------------------------------------------------------------------
\* Buffer.toString("hex")
\* ------------------------------------------------------------------------

HexDigit(n) == IF n < 10 THEN 48 + n ELSE 97 + (n - 10)

ToHex(buf) ==
  [j \in 1..(2 * Len(buf)) |->
     IF j % 2 = 1 THEN HexDigit(buf[(j + 1) \div 2] \div 16)
     ELSE HexDigit(buf[j \div 2] % 16)]

\* ------------------------------------------------------------------------
\* UTF-8: Buffer.from(str, "utf8") and buffer.toString("utf8")
\* ------------------------------------------------------------------------

Utf8EncodeOne(cp) ==
  IF cp < 128 THEN <<cp>>
  ELSE IF cp < 2048 THEN <<192 + (cp \div 64), 128 + (cp % 64)>>
  ELSE IF cp < 65536
    THEN <<224 + (cp \div 4096), 128 + ((cp \div 64) % 64), 128 + (cp % 64)>>
  ELSE <<240 + (cp \div 262144), 128 + ((cp \div 4096) % 64),
         128 + ((cp \div 64) % 64), 128 + (cp % 64)>>

Utf8Encode(str) == Flatten([j \in 1..Len(str) |-> Utf8EncodeOne(str[j])])

IsCont(buf, j) == j <= Len(buf) /\ buf[j] >= 128 /\ buf[j] < 192

\* U+FFFD, which toString("utf8") puts in the place of an invalid byte.
Replacement == 65533

RECURSIVE Utf8DecodeFrom(_, _)
Utf8DecodeFrom(buf, j) ==
  IF j > Len(buf) THEN <<>>
  ELSE LET b == buf[j] IN
    IF b < 128 THEN <<b>> \o Utf8DecodeFrom(buf, j + 1)
    ELSE IF b >= 194 /\ b < 224 /\ IsCont(buf, j + 1)
      THEN <<(b - 192) * 64 + (buf[j + 1] - 128)>> \o Utf8DecodeFrom(buf, j + 2)
    ELSE IF b >= 224 /\ b < 240 /\ IsCont(buf, j + 1) /\ IsCont(buf, j + 2)
      THEN <<(b - 224) * 4096 + (buf[j + 1] - 128) * 64 + (buf[j + 2] - 128)>>
           \o Utf8DecodeFrom(buf, j + 3)
    ELSE IF b >= 240 /\ b < 245 /\ IsCont(buf, j + 1) /\ IsCont(buf, j + 2)
            /\ IsCont(buf, j + 3)
      THEN <<(b - 240) * 262144 + (buf[j + 1] - 128) * 4096
             + (buf[j + 2] - 128) * 64 + (buf[j + 3] - 128)>>
           \o Utf8DecodeFrom(buf, j + 4)
    ELSE <<Replacement>> \o Utf8DecodeFrom(buf, j + 1)

Utf8Decode(buf) == Utf8DecodeFrom(buf, 1)

\* ------------------------------------------------------------------------
\* base64: buffer.toString("base64") and Buffer.from(str, "base64")
\* ------------------------------------------------------------------------

B64Char(n) ==
  IF n < 26 THEN 65 + n
  ELSE IF n < 52 THEN 97 + (n - 26)
  ELSE IF n < 62 THEN 48 + (n - 52)
  ELSE IF n = 62 THEN 43 ELSE 47

\* The 6-bit value of a character, -1 for a character outside the alphabet
\* ('-' and '_' are accepted as 62 and 63).
B64Value(c) ==
  IF c >= 65 /\ c <= 90 THEN c - 65
  ELSE IF c >= 97 /\ c <= 122 THEN c - 97 + 26
  ELSE IF c >= 48 /\ c <= 57 THEN c - 48 + 52
  ELSE IF c = 43 \/ c = 45 THEN 62
  ELSE IF c = 47 \/ c = 95 THEN 63
  ELSE -1

PadChar == 61

RECURSIVE Base64EncodeFrom(_, _)
Base64EncodeFrom(buf, j) ==
  LET left == Len(buf) - j + 1 IN
  IF left <= 0 THEN <<>>
  ELSE IF left = 1
    THEN <<B64Char(buf[j] \div 4), B64Char((buf[j] % 4) * 16), PadChar, PadChar>>
  ELSE IF left = 2
    THEN <<B64Char(buf[j] \div 4),
           B64Char((buf[j] % 4) * 16 + (buf[j + 1] \div 16)),
           B64Char((buf[j + 1] % 16) * 4), PadChar>>
  ELSE <<B64Char(buf[j] \div 4),
         B64Char((buf[j] % 4) * 16 + (buf[j + 1] \div 16)),
         B64Char((buf[j + 1] % 16) * 4 + (buf[j + 2] \div 64)),
         B64Char(buf[j + 2] % 64)>> \o Base64EncodeFrom(buf, j + 3)

Base64Encode(buf) == Base64EncodeFrom(buf, 1)

\* The 6-bit values of the characters before the first '=', the characters
\* outside the alphabet skipped (the decoder is lenient: it never throws).
RECURSIVE B64Sextets(_, _)
B64Sextets(str, j) ==
  IF j > Len(str) \/ str[j] = PadChar THEN <<>>
  ELSE IF B64Value(str[j]) < 0 THEN B64Sextets(str, j + 1)
  ELSE <<B64Value(str[j])>> \o B64Sextets(str, j + 1)

RECURSIVE B64Groups(_, _)
B64Groups(sx, j) ==
  LET left == Len(sx) - j + 1 IN
  IF left <= 1 THEN <<>>
  ELSE IF left = 2 THEN <<sx[j] * 4 + (sx[j + 1] \div 16)>>
  ELSE IF left = 3
    THEN <<sx[j] * 4 + (sx[j + 1] \div 16),
           (sx[j + 1] % 16) * 16 + (sx[j + 2] \div 4)>>
  ELSE <<sx[j] * 4 + (sx[j + 1] \div 16),
         (sx[j + 1] % 16) * 16 + (sx[j + 2] \div 4),
         (sx[j + 2] % 4) * 64 + sx[j + 3]>> \o B64Groups(sx, j + 4)

Base64Decode(str) == B64Groups(B64Sextets(str, 1), 1)

\* ------------------------------------------------------------------------
\* crypto.randomBytes
\* ------------------------------------------------------------------------

\* The i-th value crypto.randomBytes(n) can return.
RandomBytes(n, i) == [j \in 1..n |-> (i * 83 + j * 29 + 7) % 256]

RandomKeys == {RandomBytes(KeyLen, i) : i \in 1..NumRandomKeys}

RandomIVs == {RandomBytes(IVLen, i) : i \in 1..NumIVs}

\* ------------------------------------------------------------------------
\* crypto.createHash("sha256").update(value).digest()
\* ------------------------------------------------------------------------

RECURSIVE WeightedSum(_, _, _)
WeightedSum(buf, j, w) ==
  IF j > Len(buf) THEN 0
  ELSE ((buf[j] * (j * w + 1)) + WeightedSum(buf, j + 1, w)) % 256

\* A deterministic 32-byte digest of the UTF-8 bytes of the string.
Sha256(str) ==
  LET buf == Utf8Encode(str)
      s0 == WeightedSum(buf, 1, 0)
      s1 == WeightedSum(buf, 1, 1)
  IN  [j \in 1..KeyLen |-> (s0 * j + s1 * (j + 3) + 17 * j + Len(buf)) % 256]

\* ------------------------------------------------------------------------
\* "aes-256-cbc": block function, CBC chaining, PKCS#7 padding
\* ------------------------------------------------------------------------

\* A permutation of the positions of a block and its inverse.
Rot(j) == (j % BlockSize) + 1

RotInv(j) == ((j + BlockSize - 2) % BlockSize) + 1

\* A permutation of the 16-byte blocks for each 32-byte key.
AesEncryptBlock(k, blk) ==
  [j \in 1..BlockSize |-> (BitXor(blk[Rot(j)], k[j]) + k[j + BlockSize]) % 256]

AesDecryptBlock(k, blk) ==
  [j \in 1..BlockSize |->
     BitXor((blk[RotInv(j)] + 256 - k[RotInv(j) + BlockSize]) % 256, k[RotInv(j)])]

Pkcs7Pad(buf) ==
  LET n == BlockSize - (Len(buf) % BlockSize)
  IN  buf \o [j \in 1..n |-> n]

Pkcs7Valid(buf) ==
  /\ Len(buf) >= BlockSize
  /\ LET n == buf[Len(buf)]
     IN  /\ n >= 1
         /\ n <= BlockSize
         /\ \A j \in (Len(buf) - n + 1)..Len(buf) : buf[j] = n

Pkcs7Unpad(buf) == SubSeq(buf, 1, Len(buf) - buf[Len(buf)])

Block(buf, i) == SubSeq(buf, (i - 1) * BlockSize + 1, i * BlockSize)

RECURSIVE CbcEncryptFrom(_, _, _, _)
CbcEncryptFrom(k, prev, buf, i) ==
  IF i * BlockSize > Len(buf) THEN <<>>
  ELSE LET c == AesEncryptBlock(k, XorBytes(Block(buf, i), prev))
       IN  c \o CbcEncryptFrom(k, c, buf, i + 1)

RECURSIVE CbcDecryptFrom(_, _, _, _)
CbcDecryptFrom(k, prev, buf, i) ==
  IF i * BlockSize > Len(buf) THEN <<>>
  ELSE XorBytes(AesDecryptBlock(k, Block(buf, i)), prev)
       \o CbcDecryptFrom(k, Block(buf, i), buf, i + 1)

\* Buffer.concat([cipher.update(buffer), cipher.final()]) of
\* crypto.createCipheriv("aes-256-cbc", key, iv).
CipherUpdateFinal(k, iv, buf) == CbcEncryptFrom(k, iv, Pkcs7Pad(buf), 1)

\* crypto.createDecipheriv("aes-256-cbc", key, iv), then
\* Buffer.concat([decipher.update(data), decipher.final()]):
\* [err, val], err being what the library throws.
DecipherUpdateFinal(k, iv, data) ==
  IF Len(iv) # IVLen
    THEN [err |-> Exception("TypeError", "Invalid initialization vector"),
          val |-> <<>>]
  ELSE IF Len(data) = 0 \/ Len(data) % BlockSize # 0
    THEN [err |-> Exception("Error", "wrong final block length"), val |-> <<>>]
  ELSE LET padded == CbcDecryptFrom(k, iv, data, 1)
       IN  IF Pkcs7Valid(padded)
             THEN [err |-> NoError, val |-> Pkcs7Unpad(padded)]
             ELSE [err |-> Exception("Error", "bad decrypt"), val |-> <<>>]

\* ------------------------------------------------------------------------
\* JSON values, JSON.stringify and JSON.parse
\* ------------------------------------------------------------------------

\* A JSON value: its type t and, by type, the number n, the string s, or the
\* children kids (of an array, or of an object whose keys are keys, in
\* insertion order).
JValue(t, n, s, keys, kids) ==
  [t |-> t, n |-> n, s |-> s, keys |-> keys, kids |-> kids]

JNull == JValue("null", 0, <<>>, <<>>, <<>>)

JBool(b) == JValue(IF b THEN "true" ELSE "false", 0, <<>>, <<>>, <<>>)

JNum(n) == JValue("number", n, <<>>, <<>>, <<>>)

JStr(s) == JValue("string", 0, s, <<>>, <<>>)

JArr(kids) == JValue("array", 0, <<>>, <<>>, kids)

JObj(keys, kids) == JValue("object", 0, <<>>, keys, kids)

RECURSIVE Digits(_)
Digits(n) ==
  IF n < 10 THEN <<48 + n>> ELSE Digits(n \div 10) \o <<48 + (n % 10)>>

NumberToString(n) == IF n < 0 THEN <<45>> \o Digits(0 - n) ELSE Digits(n)

\* The text JSON.stringify writes for one character of a string.
EscapeChar(c) ==
  IF c = 34 THEN <<92, 34>>
  ELSE IF c = 92 THEN <<92, 92>>
  ELSE IF c = 8 THEN <<92, 98>>
  ELSE IF c = 9 THEN <<92, 116>>
  ELSE IF c = 10 THEN <<92, 110>>
  ELSE IF c = 12 THEN <<92, 102>>
  ELSE IF c = 13 THEN <<92, 114>>
  ELSE IF c < 32
    THEN <<92, 117, 48, 48, HexDigit(c \div 16), HexDigit(c % 16)>>
  ELSE <<c>>

QuoteString(s) ==
  <<34>> \o Flatten([j \in 1..Len(s) |-> EscapeChar(s[j])]) \o <<34>>

RECURSIVE JoinComma(_)
JoinComma(parts) ==
  IF parts = <<>> THEN <<>>
  ELSE IF Len(parts) = 1 THEN parts[1]
  ELSE parts[1] \o <<44>> \o JoinComma(Tail(parts))

RECURSIVE JSONStringify(_)
JSONStringify(v) ==
  CASE v.t = "null" -> <<110, 117, 108, 108>>
    [] v.t = "true" -> <<116, 114, 117, 101>>
    [] v.t = "false" -> <<102, 97, 108, 115, 101>>
    [] v.t = "number" -> NumberToString(v.n)
    [] v.t = "string" -> QuoteString(v.s)
    [] v.t = "array" ->
         <<91>> \o JoinComma([j \in 1..Len(v.kids) |-> JSONStringify(v.kids[j])])
         \o <<93>>
    [] v.t = "object" ->
         <<123>>
         \o JoinComma([j \in 1..Len(v.kids) |->
              QuoteString(v.keys[j]) \o <<58>> \o JSONStringify(v.kids[j])])
         \o <<125>>

\* A value JSON.stringify refuses.
JBigInt == JValue("bigint", 1, <<>>, <<>>, <<>>)

\* JSON.stringify(data): [err, str], err the TypeError it throws.
stringify(data) ==
  IF data.t = "bigint"
    THEN [err |-> Exception("TypeError", "Do not know how to serialize a BigInt"),
          str |-> <<>>]
    ELSE [err |-> NoError, str |-> JSONStringify(data)]

\* The parser: each step returns [ok, v, pos], pos the next unread position.
ParseFail == [ok |-> FALSE, v |-> JNull, pos |-> 0]

ParseOk(v, pos) == [ok |-> TRUE, v |-> v, pos |-> pos]

IsWs(c) == c = 32 \/ c = 9 \/ c = 10 \/ c = 13

IsDigit(c) == c >= 48 /\ c <= 57

At(str, i) == IF i >= 1 /\ i <= Len(str) THEN str[i] ELSE -1

RECURSIVE SkipWs(_, _)
SkipWs(str, i) == IF IsWs(At(str, i)) THEN SkipWs(str, i + 1) ELSE i

Matches(str, i, word) ==
  /\ i + Len(word) - 1 <= Len(str)
  /\ SubSeq(str, i, i + Len(word) - 1) = word

HexValue(c) ==
  IF IsDigit(c) THEN c - 48
  ELSE IF c >= 97 /\ c <= 102 THEN c - 97 + 10
  ELSE IF c >= 65 /\ c <= 70 THEN c - 65 + 10
  ELSE -1

Unescape(c) ==
  IF c = 34 \/ c = 92 \/ c = 47 THEN c
  ELSE IF c = 98 THEN 8
  ELSE IF c = 116 THEN 9
  ELSE IF c = 110 THEN 10
  ELSE IF c = 102 THEN 12
  ELSE IF c = 114 THEN 13
  ELSE -1

\* The characters of a string literal after its opening quote.
RECURSIVE ParseChars(_, _, _)
ParseChars(str, i, acc) ==
  LET c == At(str, i) IN
  IF c = 34 THEN ParseOk(JStr(acc), i + 1)
  ELSE IF c < 32 THEN ParseFail
  ELSE IF c # 92 THEN ParseChars(str, i + 1, Append(acc, c))
  ELSE IF At(str, i + 1) = 117
    THEN LET h == [j \in 1..4 |-> HexValue(At(str, i + 1 + j))]
         IN  IF \E j \in 1..4 : h[j] < 0 THEN ParseFail
             ELSE ParseChars(str, i + 6,
                    Append(acc, h[1] * 4096 + h[2] * 256 + h[3] * 16 + h[4]))
  ELSE IF Unescape(At(str, i + 1)) < 0 THEN ParseFail
  ELSE ParseChars(str, i + 2, Append(acc, Unescape(At(str, i + 1))))

RECURSIVE ParseDigits(_, _, _)
ParseDigits(str, i, acc) ==
  IF IsDigit(At(str, i)) THEN ParseDigits(str, i + 1, acc * 10 + (At(str, i) - 48))
  ELSE ParseOk(JNum(acc), i)

\* An integer literal (a fraction or an exponent is not read: the text that
\* follows the integer part is left to the caller).
ParseNumber(str, i) ==
  LET neg == At(str, i) = 45
      j == IF neg THEN i + 1 ELSE i
      r == IF At(str, j) = 48 THEN ParseOk(JNum(0), j + 1)
           ELSE ParseDigits(str, j, 0)
  IN  IF ~IsDigit(At(str, j)) THEN ParseFail
      ELSE IF neg THEN ParseOk(JNum(0 - r.v.n), r.pos) ELSE r

RECURSIVE ParseValue(_, _)
RECURSIVE ParseElements(_, _, _)
RECURSIVE ParseMembers(_, _, _, _)

ParseValue(str, i0) ==
  LET i == SkipWs(str, i0)
      c == At(str, i)
  IN  IF c = 110
        THEN IF Matches(str, i, <<110, 117, 108, 108>>)
               THEN ParseOk(JNull, i + 4) ELSE ParseFail
      ELSE IF c = 116
        THEN IF Matches(str, i, <<116, 114, 117, 101>>)
               THEN ParseOk(JBool(TRUE), i + 4) ELSE ParseFail
      ELSE IF c = 102
        THEN IF Matches(str, i, <<102, 97, 108, 115, 101>>)
               THEN ParseOk(JBool(FALSE), i + 5) ELSE ParseFail
      ELSE IF c = 34 THEN ParseChars(str, i + 1, <<>>)
      ELSE IF c = 45 \/ IsDigit(c) THEN ParseNumber(str, i)
      ELSE IF c = 91
        THEN IF At(str, SkipWs(str, i + 1)) = 93
               THEN ParseOk(JArr(<<>>), SkipWs(str, i + 1) + 1)
               ELSE ParseElements(str, i + 1, <<>>)
      ELSE IF c = 123
        THEN IF At(str, SkipWs(str, i + 1)) = 125
               THEN ParseOk(JObj(<<>>, <<>>), SkipWs(str, i + 1) + 1)
               ELSE ParseMembers(str, i + 1, <<>>, <<>>)
      ELSE ParseFail

\* After the element r of an array: a comma and the other elements, or the
\* closing bracket.
NextElement(str, r, acc) ==
  LET j == SkipWs(str, r.pos)
  IN  IF ~r.ok THEN ParseFail
      ELSE IF At(str, j) = 44 THEN ParseElements(str, j + 1, Append(acc, r.v))
      ELSE IF At(str, j) = 93 THEN ParseOk(JArr(Append(acc, r.v)), j + 1)
      ELSE ParseFail

ParseElements(str, i, acc) == NextElement(str, ParseValue(str, i), acc)

\* A key already read takes the later value and keeps its place.
PutMember(keys, kids, k, v) ==
  IF \E j \in 1..Len(keys) : keys[j] = k
    THEN [keys |-> keys,
          kids |-> [j \in 1..Len(kids) |-> IF keys[j] = k THEN v ELSE kids[j]]]
    ELSE [keys |-> Append(keys, k), kids |-> Append(kids, v)]

\* The key of a member: a string literal at i.
MemberKey(str, i) ==
  IF At(str, i) = 34 THEN ParseChars(str, i + 1, <<>>) ELSE ParseFail

\* The value of the member whose key is k: a colon at c, then a value.
MemberValue(str, k, c) ==
  IF k.ok /\ At(str, c) = 58 THEN ParseValue(str, c + 1) ELSE ParseFail

\* After the member k: r of an object: a comma and the other members, or the
\* closing brace.
NextMember(str, k, r, keys, kids) ==
  LET j == SkipWs(str, r.pos)
      m == PutMember(keys, kids, k.v.s, r.v)
  IN  IF ~r.ok THEN ParseFail
      ELSE IF At(str, j) = 44 THEN ParseMembers(str, j + 1, m.keys, m.kids)
      ELSE IF At(str, j) = 125 THEN ParseOk(JObj(m.keys, m.kids), j + 1)
      ELSE ParseFail

AfterKey(str, k, keys, kids) ==
  NextMember(str, k, MemberValue(str, k, SkipWs(str, k.pos)), keys, kids)

ParseMembers(str, i0, keys, kids) ==
  AfterKey(str, MemberKey(str, SkipWs(str, i0)), keys, kids)

\* JSON.parse(text): [err, json], err the SyntaxError it throws.
\* The value r read from str is the whole text, or the text is no JSON.
WholeText(str, r) ==
  IF r.ok /\ SkipWs(str, r.pos) > Len(str)
    THEN [err |-> NoError, json |-> r.v]
    ELSE [err |-> Exception("SyntaxError", "Unexpected token in JSON"),
          json |-> JNull]

JSONParse(str) == WholeText(str, ParseValue(str, 1))

\* ------------------------------------------------------------------------
\* JS values handed to the setters, and the outcome of a call
\* ------------------------------------------------------------------------

JSString(str) == [type |-> "string", str |-> str]

JSNumber(n) == [type |-> "number", str |-> NumberToString(n)]

\* value.length: the number of characters of a string, undefined (-1) for a
\* number.
JSLength(value) == IF value.type = "string" THEN Len(value.str) ELSE -1

\* The properties a string or a number has that the class reads or calls.
\* Neither has a method named "from" (Buffer.from is a static method of
\* Buffer).
HasMethod(value, name) ==
  /\ value.type \in {"string", "number"}
  /\ name \in {"toString", "valueOf"}

\* The outcome of a call: the exception thrown (NoError for none), the
\* Buffer or string returned (val), the JSON value returned (json).
Outcome(err, val, json) == [err |-> err, val |-> val, json |-> json]

Throw(err) == Outcome(err, <<>>, JNull)

Return(val) == Outcome(NoError, val, JNull)

ReturnJSON(v) == Outcome(NoError, <<>>, v)

Threw(r) == r.err # NoError

KeyNotSet == Exception("Error", "Key is not set.")

\* ------------------------------------------------------------------------
\* class TopSecret: the methods as functions of the fields they read
\* ------------------------------------------------------------------------

\* get randomKey: the key drawn and the string returned.
randomKey(i) ==
  LET k == RandomBytes(KeyLen, i)
  IN  [key |-> k, out |-> Return(ToHex(k))]

\* encryptBuffer without its test of this._key: createCipheriv is given null.
encryptBufferUnguarded(key, iv, buffer) ==
  IF key = Null
    THEN Throw(Exception("TypeError", "The \"key\" argument must be of type string"))
  ELSE Return(iv \o CipherUpdateFinal(key, iv, buffer))

\* encryptBuffer with an IV of sixteen zero bytes in place of the random one.
encryptBufferFixedIV(key, iv, buffer) ==
  LET zero == [j \in 1..IVLen |-> 0]
  IN  IF key = Null THEN Throw(KeyNotSet)
      ELSE Return(zero \o CipherUpdateFinal(key, zero, buffer))

\* encryptBuffer(buffer), iv being the value crypto.randomBytes(16) returns.
encryptBuffer(key, iv, buffer) ==
  IF key = Null THEN Throw(KeyNotSet)
  ELSE Return(iv \o CipherUpdateFinal(key, iv, buffer))

\* encryptJSON(data)
encryptJSON(key, iv, data) ==
  IF key = Null THEN Throw(KeyNotSet)
  ELSE LET jsonString == stringify(data)
           encryptedBuffer == encryptBuffer(key, iv, Utf8Encode(jsonString.str))
       IN  IF jsonString.err # NoError THEN Throw(jsonString.err)
           ELSE IF Threw(encryptedBuffer) THEN encryptedBuffer
           ELSE Return(Base64Encode(encryptedBuffer.val))

\* decryptBuffer deciphering the whole buffer, the IV not cut off.
decryptBufferKeepsIV(key, buffer) ==
  IF key = Null THEN Throw(KeyNotSet)
  ELSE LET iv == SliceTo(buffer, IVLen)
           decrypted == DecipherUpdateFinal(key, iv, buffer)
       IN  IF decrypted.err # NoError THEN Throw(decrypted.err)
           ELSE Return(decrypted.val)

\* decryptBuffer(buffer)
decryptBuffer(key, buffer) ==
  IF key = Null THEN Throw(KeyNotSet)
  ELSE LET iv == SliceTo(buffer, IVLen)
           encryptedText == SliceFrom(buffer, IVLen)
           decrypted == DecipherUpdateFinal(key, iv, encryptedText)
       IN  IF decrypted.err # NoError THEN Throw(decrypted.err)
           ELSE Return(decrypted.val)

\* return JSON.parse(...): the value, or the SyntaxError.
Parsed(parsed) ==
  IF parsed.err # NoError THEN Throw(parsed.err) ELSE ReturnJSON(parsed.json)

\* decryptJSON reading the plaintext as latin1: one character per byte.
decryptJSONLatin1(key, encryptedData) ==
  IF key = Null THEN Throw(KeyNotSet)
  ELSE LET decryptedBuffer == decryptBuffer(key, Base64Decode(encryptedData))
       IN  IF Threw(decryptedBuffer) THEN decryptedBuffer
           ELSE Parsed(JSONParse(decryptedBuffer.val))

\* return JSON.parse(decryptedBuffer.toString("utf8")), if decryptBuffer
\* returned.
ParseDecrypted(decryptedBuffer) ==
  IF Threw(decryptedBuffer) THEN decryptedBuffer
  ELSE Parsed(JSONParse(Utf8Decode(decryptedBuffer.val)))

\* decryptJSON(encryptedData)
decryptJSON(key, encryptedData) ==
  IF key = Null THEN Throw(KeyNotSet)
  ELSE ParseDecrypted(decryptBuffer(key, Base64Decode(encryptedData)))

\* get key: this._key.toString("hex"), with no test of this._key.
getKey(key) ==
  IF key = Null
    THEN Throw(Exception("TypeError",
                         "Cannot read properties of null (reading 'toString')"))
  ELSE Return(ToHex(key))

\* set key(value): the key after the assignment and the outcome.  The
\* right-hand side value.from("hex") is evaluated before this._key is
\* written; it throws for a value without a method "from", which is every
\* string and every number.
setKey(key, value) ==
  IF JSLength(value) # KeyHexLen
    THEN [key |-> key,
          out |-> Throw(Exception("Error", "Key must be 64 bytes long."))]
  ELSE IF ~HasMethod(value, "from")
    THEN [key |-> key,
          out |-> Throw(Exception("TypeError", "value.from is not a function"))]
  ELSE [key |-> value.str, out |-> Return(<<>>)]

\* get password
getPassword(password) == Return(password)

\* set password storing the value before it validates it.
setPasswordStoresFirst(key, password, value) ==
  IF value.type # "string" \/ Len(value.str) = 0
    THEN [key |-> key, password |-> value.str,
          out |-> Throw(Exception("Error", "Password must be a non-empty string."))]
  ELSE [key |-> Sha256(value.str), password |-> value.str, out |-> Return(<<>>)]

\* set password storing the password and deriving no key.
setPasswordNoDerive(key, password, value) ==
  IF value.type # "string" \/ Len(value.str) = 0
    THEN [key |-> key, password |-> password,
          out |-> Throw(Exception("Error", "Password must be a non-empty string."))]
  ELSE [key |-> key, password |-> value.str, out |-> Return(<<>>)]

\* set password(value): the fields after the assignment and the outcome.
setPassword(key, password, value) ==
  IF value.type # "string" \/ Len(value.str) = 0
    THEN [key |-> key, password |-> password,
          out |-> Throw(Exception("Error", "Password must be a non-empty string."))]
  ELSE [key |-> Sha256(value.str), password |-> value.str, out |-> Return(<<>>)]

\* ------------------------------------------------------------------------
\* fs: a file system of whole files
\* ------------------------------------------------------------------------

LoremPath == "test/lorem.txt"

EncryptedPath == "test/encrypted.txt"

DecryptedPath == "test/decrypted.txt"

\* A path in a directory that does not exist.
NoDirPath == "nodir/out.bin"

Paths == {LoremPath, EncryptedPath, DecryptedPath, NoDirPath}

DirExists(path) == path # NoDirPath

\* The content of test/lorem.txt: "Lorem ipsum dolor sit amet".
Lorem ==
  <<76, 111, 114, 101, 109, 32, 105, 112, 115, 117, 109, 32, 100, 111, 108,
    111, 114, 32, 115, 105, 116, 32, 97, 109, 101, 116>>

NoSuchFile == Exception("Error", "ENOENT: no such file or directory")

\* fs.readFileSync(filename): [err, val].
readFileSync(fs, filename) ==
  IF fs[filename] = Null THEN [err |-> NoSuchFile, val |-> <<>>]
  ELSE [err |-> NoError, val |-> fs[filename]]

\* fs.writeFileSync(filename, data): the file system after it and the error.
writeFileSync(fs, filename, data) ==
  IF ~DirExists(filename) THEN [fs |-> fs, err |-> NoSuchFile]
  ELSE [fs |-> [fs EXCEPT ![filename] = data], err |-> NoError]

\* ------------------------------------------------------------------------
\* The file methods: [out, fs, log], log being what console.error was given
\* (<<>> when it was not called)
\* ------------------------------------------------------------------------

LogEntry(message, cause) == [message |-> message, cause |-> cause]

\* catch (error) { console.error(message + ":", error);
\*                 throw new Error(message + "."); }
Caught(fs, message, dotted, error) ==
  [out |-> Throw(Exception("Error", dotted)),
   fs |-> fs,
   log |-> <<LogEntry(message, error)>>]

Completed(fs, out) == [out |-> out, fs |-> fs, log |-> <<>>]

\* The last statement of a try block, return out: the catch block if the
\* call in it threw.
ReturnOrCatch(fs, out, message, dotted) ==
  IF Threw(out) THEN Caught(fs, message, dotted, out.err)
  ELSE Completed(fs, out)

loadBufferFromFile(key, fs, filename) ==
  LET encryptedBuffer == readFileSync(fs, filename)
  IN  IF encryptedBuffer.err # NoError
        THEN Caught(fs, "Failed to load buffer from file:",
                    "Failed to load buffer from file.", encryptedBuffer.err)
        ELSE ReturnOrCatch(fs, decryptBuffer(key, encryptedBuffer.val),
                           "Failed to load buffer from file:",
                           "Failed to load buffer from file.")

\* loadJSONFromFile whose catch block logs and does not throw.
loadJSONFromFileSwallows(key, fs, filename) ==
  LET file == readFileSync(fs, filename)
      encryptedData == Utf8Decode(file.val)
      decrypted == decryptJSON(key, encryptedData)
      error == IF file.err # NoError THEN file.err ELSE decrypted.err
  IN  IF error # NoError
        THEN [out |-> Return(<<>>), fs |-> fs,
              log |-> <<LogEntry("Failed to load JSON from file:", error)>>]
        ELSE Completed(fs, decrypted)

loadJSONFromFile(key, fs, filename) ==
  LET encryptedData == readFileSync(fs, filename)
  IN  IF encryptedData.err # NoError
        THEN Caught(fs, "Failed to load JSON from file:",
                    "Failed to load JSON from file.", encryptedData.err)
        ELSE ReturnOrCatch(fs, decryptJSON(key, Utf8Decode(encryptedData.val)),
                           "Failed to load JSON from file:",
                           "Failed to load JSON from file.")

saveBufferToFile(key, iv, fs, filename, buffer) ==
  LET encryptedBuffer == encryptBuffer(key, iv, buffer)
      written == writeFileSync(fs, filename, encryptedBuffer.val)
      error == IF Threw(encryptedBuffer) THEN encryptedBuffer.err ELSE written.err
  IN  IF error # NoError
        THEN Caught(fs, "Failed to save buffer to file:",
                    "Failed to save buffer to file.", error)
        ELSE Completed(written.fs, Return(<<>>))

saveJSONToFile(key, iv, fs, filename, data) ==
  LET encryptedData == encryptJSON(key, iv, data)
      written == writeFileSync(fs, filename, Utf8Encode(encryptedData.val))
      error == IF Threw(encryptedData) THEN encryptedData.err ELSE written.err
  IN  IF error # NoError
        THEN Caught(fs, "Failed to save JSON to file:",
                    "Failed to save JSON to file.", error)
        ELSE Completed(written.fs, Return(<<>>))

\* The methods class TopSecret defines.
Methods ==
  {"encryptBuffer", "encryptJSON", "decryptBuffer", "decryptJSON",
   "loadBufferFromFile", "loadJSONFromFile", "saveBufferToFile",
   "saveJSONToFile"}

\* topSecret.name(...): a call of a property the class does not define
\* throws before anything runs.
NotAFunction(name) ==
  IF name \in Methods THEN NoError
  ELSE Exception("TypeError", "topSecret." \o name \o " is not a function")

\* ------------------------------------------------------------------------
\* Inputs of the callers
\* ------------------------------------------------------------------------

\* The length of the i-th sample buffer: inside a block, one block, empty,
\* more than a block.
BufferLen(i) ==
  CASE i = 1 -> 5
    [] i = 2 -> BlockSize
    [] i = 3 -> 0
    [] OTHER -> BlockSize + i - 3

SampleBuffer(i) == [j \in 1..BufferLen(i) |-> (j * 31 + i) % 256]

Buffers == {SampleBuffer(i) : i \in 1..NumBuffers}

\* {"a":[1,null,true]}, "é\"", {"k":{"x":[]},"s":"\n","n":-12}, then small
\* arrays.
SampleJSON(i) ==
  CASE i = 1 -> JObj(<< <<97>> >>, << JArr(<<JNum(1), JNull, JBool(TRUE)>>) >>)
    [] i = 2 -> JStr(<<233, 34>>)
    [] i = 3 -> JObj(<< <<107>>, <<115>>, <<110>> >>,
                     << JObj(<< <<120>> >>, << JArr(<<>>) >>), JStr(<<10>>),
                        JNum(-12) >>)
    [] OTHER -> JArr(<<JBool(FALSE), JNum(i)>>)

JSONValues == {SampleJSON(i) : i \in 1..NumJSON}

\* What the caller assigns to key: the hex string of a key, a string one
\* character short, the empty string, a number.
KeyValues ==
  {JSString(ToHex(RandomBytes(KeyLen, 1))),
   JSString(SliceTo(ToHex(RandomBytes(KeyLen, 1)), KeyHexLen - 1)),
   JSString(<<>>), JSNumber(KeyHexLen)}

\* What the caller assigns to password: "pw", the empty string, a number.
PasswordValues == {JSString(<<112, 119>>), JSString(<<>>), JSNumber(7)}

\* Buffers that are no envelope: shorter than an IV, an IV alone.
Malformed == {RandomBytes(3, 1), RandomBytes(IVLen, 2)}

\* "!!!!": a text with no base64 character.
Garbage == <<33, 33, 33, 33>>

\* The base64 text of an envelope whose plaintext is no JSON text.
NotJSON(key) ==
  IF key = Null THEN <<>>
  ELSE Base64Encode(encryptBuffer(key, RandomBytes(IVLen, 1), SampleBuffer(1)).val)

\* ------------------------------------------------------------------------
\* State
\* ------------------------------------------------------------------------

VARIABLES
  _key,       \* this._key: Null or 32 bytes
  _password,  \* this._password: Null or a string
  files,      \* the file system: path -> content, Null for no file
  console,    \* what the last call gave console.error: <<>> or <<entry>>
  call,       \* the last call: the method, its arguments, the fields before it
  result,     \* the outcome of the last call
  env,        \* the last envelope encryptBuffer returned, and what made it
  prev,       \* the envelope before that, if of the same plaintext and key
  text,       \* the last text encryptJSON returned, and what made it
  installed   \* whether randomKey or a setter has installed a key

vars ==
  <<_key, _password, files, console, call, result, env, prev, text,
    installed>>

Call(op, buf, json, value, path, path2) ==
  [op |-> op, buf |-> buf, json |-> json, value |-> value, path |-> path,
   path2 |-> path2, key0 |-> _key, pw0 |-> _password]

\* A call that overwrites the fields whatever they were: what they were is
\* not kept.
Overwriting(op, value) ==
  [op |-> op, buf |-> <<>>, json |-> JNull, value |-> value, path |-> "",
   path2 |-> "", key0 |-> Null, pw0 |-> Null]

Held(key, iv, plain, data, out) ==
  [key |-> key, iv |-> iv, plain |-> plain, data |-> data, out |-> out]

NoHeld == Held(Null, <<>>, <<>>, JNull, <<>>)

Init ==
  /\ _key = Null
  /\ _password = Null
  /\ files = [p \in Paths |-> IF p = LoremPath THEN Lorem ELSE Null]
  /\ console = <<>>
  /\ call = [op |-> "new", buf |-> <<>>, json |-> JNull, value |-> JSString(<<>>),
             path |-> "", path2 |-> "", key0 |-> Null, pw0 |-> Null]
  /\ result = Return(<<>>)
  /\ env = NoHeld
  /\ prev = NoHeld
  /\ text = NoHeld
  /\ installed = FALSE

\* ------------------------------------------------------------------------
\* Key management
\* ------------------------------------------------------------------------

CallRandomKey ==
  \E i \in 1..NumRandomKeys :
    LET r == randomKey(i) IN
    /\ _key' = r.key
    /\ result' = r.out
    /\ call' = Overwriting("randomKey", JSString(<<>>))
    /\ installed' = TRUE
    /\ console' = <<>>
    /\ UNCHANGED <<_password, files, env, prev, text>>

CallGetKey ==
  /\ result' = getKey(_key)
  /\ call' = Call("getKey", <<>>, JNull, JSString(<<>>), "", "")
  /\ console' = <<>>
  /\ UNCHANGED <<_key, _password, files, env, prev, text, installed>>

CallSetKey ==
  \E value \in KeyValues :
    LET r == setKey(_key, value) IN
    /\ _key' = r.key
    /\ result' = r.out
    /\ call' = Call("setKey", <<>>, JNull, value, "", "")
    /\ installed' = (installed \/ ~Threw(r.out))
    /\ console' = <<>>
    /\ UNCHANGED <<_password, files, env, prev, text>>

CallGetPassword ==
  /\ result' = getPassword(_password)
  /\ call' = Call("getPassword", <<>>, JNull, JSString(<<>>), "", "")
  /\ console' = <<>>
  /\ UNCHANGED <<_key, _password, files, env, prev, text, installed>>

CallSetPassword ==
  \E value \in PasswordValues :
    LET r == setPassword(_key, _password, value) IN
    /\ _key' = r.key
    /\ _password' = r.password
    /\ result' = r.out
    /\ call' = IF Threw(r.out) THEN Call("setPassword", <<>>, JNull, value, "", "")
               ELSE Overwriting("setPassword", value)
    /\ installed' = (installed \/ ~Threw(r.out))
    /\ console' = <<>>
    /\ UNCHANGED <<files, env, prev, text>>

\* The calls that install a key, or try to.
KeyInstallation ==
  \/ CallRandomKey
  \/ CallSetKey
  \/ CallSetPassword

KeyManagement ==
  \/ KeyInstallation
  \/ CallGetKey
  \/ CallGetPassword

\* ------------------------------------------------------------------------
\* Buffers and JSON values
\* ------------------------------------------------------------------------

\* The previous envelope the caller still holds when it encrypts buffer
\* again: the last one, if it is of the same plaintext under the same key.
Earlier(buffer) ==
  IF env.key = _key /\ env.plain = buffer THEN env ELSE NoHeld

\* keeps: whether the caller keeps the envelope for later calls.
CallEncryptBuffer(buffers, ivs, keeps) ==
  \E buffer \in buffers, iv \in ivs :
    LET r == encryptBuffer(_key, iv, buffer) IN
    /\ result' = r
    /\ call' = Call("encryptBuffer", buffer, JNull, JSString(<<>>), "", "")
    /\ IF Threw(r) \/ ~keeps THEN UNCHANGED <<env, prev>>
       ELSE /\ env' = Held(_key, iv, buffer, JNull, r.val)
            /\ prev' = Earlier(buffer)
    /\ console' = <<>>
    /\ UNCHANGED <<_key, _password, files, text, installed>>

\* The caller hands decryptBuffer what the last call returned, an envelope
\* it holds, one it cut short, or a buffer that is no envelope.
CallDecryptBuffer ==
  \E buffer \in {result.val, env.out, prev.out,
                 SliceTo(env.out, Len(env.out) - 1)} \cup Malformed :
    /\ result' = decryptBuffer(_key, buffer)
    /\ call' = Call("decryptBuffer", buffer, JNull, JSString(<<>>), "", "")
    /\ console' = <<>>
    /\ UNCHANGED <<_key, _password, files, env, prev, text, installed>>

CallEncryptJSON(values, ivs, keeps) ==
  \E data \in values, iv \in ivs :
    LET r == encryptJSON(_key, iv, data) IN
    /\ result' = r
    /\ call' = Call("encryptJSON", <<>>, data, JSString(<<>>), "", "")
    /\ text' = IF Threw(r) \/ ~keeps THEN text
               ELSE Held(_key, iv, <<>>, data, r.val)
    /\ console' = <<>>
    /\ UNCHANGED <<_key, _password, files, env, prev, installed>>

\* The caller hands decryptJSON what the last call returned, a text it
\* holds, or a text that is no JSON envelope.
CallDecryptJSON ==
  \E encryptedData \in {result.val, text.out, Garbage, NotJSON(_key)} :
    /\ result' = decryptJSON(_key, encryptedData)
    /\ call' = Call("decryptJSON", encryptedData, JNull, JSString(<<>>), "", "")
    /\ console' = <<>>
    /\ UNCHANGED <<_key, _password, files, env, prev, text, installed>>

\* ------------------------------------------------------------------------
\* Files
\* ------------------------------------------------------------------------

SavePaths == {EncryptedPath, NoDirPath}

LoadPaths == {LoremPath, EncryptedPath}

FileCall(op, r, buffer, data, filename) ==
  /\ result' = r.out
  /\ files' = r.fs
  /\ console' = r.log
  /\ call' = Call(op, buffer, data, JSString(<<>>), filename, "")
  /\ UNCHANGED <<_key, _password, env, prev, text, installed>>

CallLoadBufferFromFile ==
  \E filename \in LoadPaths :
    FileCall("loadBufferFromFile", loadBufferFromFile(_key, files, filename),
             <<>>, JNull, filename)

CallLoadJSONFromFile ==
  \E filename \in LoadPaths :
    FileCall("loadJSONFromFile", loadJSONFromFile(_key, files, filename),
             <<>>, JNull, filename)

CallSaveBufferToFile(buffers, ivs) ==
  \E filename \in SavePaths, buffer \in buffers, iv \in ivs :
    FileCall("saveBufferToFile",
             saveBufferToFile(_key, iv, files, filename, buffer),
             buffer, JNull, filename)

CallSaveJSONToFile(values, ivs) ==
  \E filename \in SavePaths, data \in values, iv \in ivs :
    FileCall("saveJSONToFile", saveJSONToFile(_key, iv, files, filename, data),
             <<>>, data, filename)

\* ------------------------------------------------------------------------
\* The calls of the test suite to methods named encryptFile, decryptFile,
\* encryptJSONToFile and decryptJSONFromFile
\* ------------------------------------------------------------------------

TestCall(op, data, path, path2) ==
  /\ result' = Throw(NotAFunction(op))
  /\ call' = Call(op, <<>>, data, JSString(<<>>), path, path2)
  /\ console' = <<>>
  /\ UNCHANGED <<_key, _password, files, env, prev, text, installed>>

\* topSecret.encryptFile(loremFilename, encryptedFilename)
CallEncryptFile == TestCall("encryptFile", JNull, LoremPath, EncryptedPath)

\* topSecret.decryptFile(encryptedFilename, decryptedFilename)
CallDecryptFile == TestCall("decryptFile", JNull, EncryptedPath, DecryptedPath)

\* topsecret.encryptJSONToFile(user1, "test/user.txt")
CallEncryptJSONToFile ==
  TestCall("encryptJSONToFile", SampleJSON(1), EncryptedPath, "")

\* topsecret.decryptJSONFromFile("test/user.txt")
CallDecryptJSONFromFile ==
  TestCall("decryptJSONFromFile", JNull, EncryptedPath, "")

\* ------------------------------------------------------------------------
\* Specifications
\* ------------------------------------------------------------------------

\* One sample of each input where the claims do not depend on its value.
OneBuffer == {SampleBuffer(1)}

OneJSON == {SampleJSON(1)}

OneIV == {RandomBytes(IVLen, 1)}

\* Every operation of the class and every call of the test suite.
Next ==
  \/ KeyManagement
  \/ CallEncryptBuffer(OneBuffer, OneIV, FALSE)
  \/ CallDecryptBuffer
  \/ CallEncryptJSON(OneJSON, OneIV, FALSE)
  \/ CallDecryptJSON
  \/ CallLoadBufferFromFile
  \/ CallLoadJSONFromFile
  \/ CallSaveBufferToFile(OneBuffer, OneIV)
  \/ CallSaveJSONToFile(OneJSON, OneIV)
  \/ CallEncryptFile
  \/ CallDecryptFile
  \/ CallEncryptJSONToFile
  \/ CallDecryptJSONFromFile

Spec == Init /\ [][Next]_vars

\* Key installation and the buffer operations, over every sample buffer and
\* IV.
NextBuffer ==
  \/ KeyInstallation
  \/ CallEncryptBuffer(Buffers, RandomIVs, TRUE)
  \/ CallDecryptBuffer

SpecBuffer == Init /\ [][NextBuffer]_vars

\* Key installation and the JSON operations, over every sample value and IV.
NextJSON ==
  \/ KeyInstallation
  \/ CallEncryptJSON(JSONValues \cup {JBigInt}, RandomIVs, TRUE)
  \/ CallDecryptJSON

SpecJSON == Init /\ [][NextJSON]_vars

\* Key installation and the file operations, over every sample buffer and
\* value.
NextFile ==
  \/ KeyInstallation
  \/ CallLoadBufferFromFile
  \/ CallLoadJSONFromFile
  \/ CallSaveBufferToFile(Buffers, OneIV)
  \/ CallSaveJSONToFile(JSONValues \cup {JBigInt}, OneIV)

SpecFile == Init /\ [][NextFile]_vars

\* ------------------------------------------------------------------------
\* Properties
\* ------------------------------------------------------------------------

InMemoryOps == {"encryptBuffer", "decryptBuffer", "encryptJSON", "decryptJSON"}

FileOps ==
  {"loadBufferFromFile", "loadJSONFromFile", "saveBufferToFile", "saveJSONToFile"}

\* The message of the error a file operation throws, and of its log line.
FailedMessage(op) ==
  CASE op = "loadBufferFromFile" -> "Failed to load buffer from file."
    [] op = "loadJSONFromFile" -> "Failed to load JSON from file."
    [] op = "saveBufferToFile" -> "Failed to save buffer to file."
    [] op = "saveJSONToFile" -> "Failed to save JSON to file."

LoggedMessage(op) ==
  CASE op = "loadBufferFromFile" -> "Failed to load buffer from file:"
    [] op = "loadJSONFromFile" -> "Failed to load JSON from file:"
    [] op = "saveBufferToFile" -> "Failed to save buffer to file:"
    [] op = "saveJSONToFile" -> "Failed to save JSON to file:"

\* C1, as stated: on an instance where no key has ever been set, each of the
\* eight encrypt/decrypt operations, the four file variants included, fails
\* with the error "Key is not set." as the error the caller receives.
C1_FreshInstanceKeyNotSet ==
  (~installed /\ call.op \in InMemoryOps \cup FileOps) => result.err = KeyNotSet

\* C1, amended: on an instance where no key has ever been set, encryptBuffer,
\* decryptBuffer, encryptJSON and decryptJSON fail with "Key is not set.";
\* each file variant fails with its own "Failed to ... file." error, the
\* "Key is not set." error (for a load of a missing file, the read error)
\* being what it logs; none returns normally.
C1_FreshInstanceFails ==
  ~installed =>
    /\ call.op \in InMemoryOps => result = Throw(KeyNotSet)
    /\ call.op \in FileOps =>
         /\ result = Throw(Exception("Error", FailedMessage(call.op)))
         /\ console =
              <<LogEntry(LoggedMessage(call.op),
                         IF call.op \in {"loadBufferFromFile", "loadJSONFromFile"}
                            /\ files[call.path] = Null
                           THEN NoSuchFile ELSE KeyNotSet)>>

C1_Witness ==
  /\ ~installed
  /\ call.op = "saveJSONToFile"
  /\ result.err.message = "Failed to save JSON to file."

\* C2: decryptBuffer, given an envelope encryptBuffer returned, under the
\* key that envelope was made under, returns exactly the plaintext,
\* whatever the IV drawn and whatever calls came before or in between.
C2_BufferRoundTrip ==
  \A h \in {env, prev} :
    (call.op = "decryptBuffer" /\ h.key # Null /\ call.buf = h.out
     /\ _key = h.key)
      => result = Return(h.plain)

C2_Witness ==
  /\ call.op = "decryptBuffer"
  /\ env.key # Null
  /\ call.buf = env.out
  /\ _key = env.key
  /\ Len(env.plain) = BlockSize
  /\ result = Return(env.plain)

IsHexString(str) == \A j \in 1..Len(str) : HexValue(str[j]) >= 0

Rejected ==
  \/ /\ call.op = "setKey"
     /\ call.value.type = "string"
     /\ Len(call.value.str) # KeyHexLen
  \/ /\ call.op = "setPassword"
     /\ (call.value.type # "string" \/ call.value.str = <<>>)

\* C4: assigning to key a string whose length is not 64, or to password an
\* empty string or a value that is no string, throws the validation error,
\* and the key and the password are afterwards what they were before.
C4_RejectedAssignmentChangesNothing ==
  Rejected =>
    /\ result =
         Throw(Exception("Error",
                 IF call.op = "setKey" THEN "Key must be 64 bytes long."
                 ELSE "Password must be a non-empty string."))
    /\ _key = call.key0
    /\ _password = call.pw0

C4_Witness ==
  /\ Rejected
  /\ call.op = "setPassword"
  /\ call.key0 # Null
  /\ call.pw0 # Null

\* The last two encryptBuffer calls were of the same plaintext under the
\* same key.
SamePlaintextTwice ==
  /\ env.key # Null
  /\ prev.key = env.key
  /\ prev.plain = env.plain

\* C5, as stated: two encryptBuffer calls on the same plaintext under the
\* same key return two different envelopes, each beginning with its IV, and
\* both decrypt under that key to the plaintext.
C5_EnvelopesDiffer ==
  SamePlaintextTwice =>
    /\ env.out # prev.out
    /\ SliceTo(env.out, IVLen) = env.iv
    /\ SliceTo(prev.out, IVLen) = prev.iv
    /\ decryptBuffer(env.key, env.out) = Return(env.plain)
    /\ decryptBuffer(env.key, prev.out) = Return(env.plain)

\* C5, amended: two encryptBuffer calls on the same plaintext under the same
\* key return envelopes that each begin with the IV the call drew and that
\* differ exactly when the two IVs differ (the draws are independent, and
\* nothing keeps crypto.randomBytes from returning the same IV twice); both
\* decrypt under that key to the plaintext.
C5_EnvelopesDifferWithIV ==
  SamePlaintextTwice =>
    /\ (env.out # prev.out) <=> (env.iv # prev.iv)
    /\ SliceTo(env.out, IVLen) = env.iv
    /\ SliceTo(prev.out, IVLen) = prev.iv
    /\ decryptBuffer(env.key, env.out) = Return(env.plain)
    /\ decryptBuffer(env.key, prev.out) = Return(env.plain)

C5_Witness ==
  /\ SamePlaintextTwice
  /\ env.iv # prev.iv
  /\ env.out # prev.out

\* C6: the text encryptJSON returns is the base64 text of IV || ciphertext of
\* the UTF-8 JSON serialization of the value, and decryptJSON, given that
\* text under the key it was made under, returns a value equal to the
\* original.
C6_JSONRoundTrip ==
  /\ text.key # Null =>
       text.out =
         Base64Encode(text.iv \o CipherUpdateFinal(text.key, text.iv,
                                   Utf8Encode(JSONStringify(text.data))))
  /\ (call.op = "decryptJSON" /\ text.key # Null /\ call.buf = text.out
      /\ _key = text.key)
       => result = ReturnJSON(text.data)

C6_Witness ==
  /\ call.op = "decryptJSON"
  /\ text.key # Null
  /\ call.buf = text.out
  /\ _key = text.key
  /\ text.data = SampleJSON(2)
  /\ result = ReturnJSON(text.data)

\* C7: with a key set, encryptFile(src, enc) writes to enc an envelope of the
\* content of src, and decryptFile(enc, dst) writes to dst the plaintext of
\* the envelope in enc, so that dst ends with the content of src.
C7_FileRoundTrip ==
  /\ (call.op = "encryptFile" /\ call.key0 # Null) =>
       /\ ~Threw(result)
       /\ files[call.path2] # Null
       /\ decryptBuffer(_key, files[call.path2]) = Return(files[call.path])
  /\ (call.op = "decryptFile" /\ call.key0 # Null /\ files[call.path] # Null
      /\ ~Threw(decryptBuffer(_key, files[call.path]))) =>
       /\ ~Threw(result)
       /\ files[call.path2] = decryptBuffer(_key, files[call.path]).val

\* The failure of the layer below the last file operation (NoError for
\* none), from the key and the file system the call ran on.
LowerFailure ==
  CASE call.op = "loadBufferFromFile" ->
         IF files[call.path] = Null THEN NoSuchFile
         ELSE decryptBuffer(call.key0, files[call.path]).err
    [] call.op = "loadJSONFromFile" ->
         IF files[call.path] = Null THEN NoSuchFile
         ELSE decryptJSON(call.key0, Utf8Decode(files[call.path])).err
    [] call.op = "saveBufferToFile" ->
         IF call.key0 = Null THEN KeyNotSet
         ELSE IF ~DirExists(call.path) THEN NoSuchFile
         ELSE NoError
    [] call.op = "saveJSONToFile" ->
         IF call.key0 = Null THEN KeyNotSet
         ELSE IF call.json = JBigInt THEN stringify(JBigInt).err
         ELSE IF ~DirExists(call.path) THEN NoSuchFile
         ELSE NoError

\* C8: when a step below a file operation fails (the read, the write, the
\* missing key, the decryption, the JSON serialization or parse), the
\* operation logs that failure and throws an error naming the operation; it
\* does not return normally.
C8_FileFailureLoggedAndRethrown ==
  (call.op \in FileOps /\ LowerFailure # NoError) =>
    /\ console = <<LogEntry(LoggedMessage(call.op), LowerFailure)>>
    /\ result = Throw(Exception("Error", FailedMessage(call.op)))

C8_Witness ==
  /\ call.op = "loadJSONFromFile"
  /\ console # <<>>
  /\ console[1].cause.message = "bad decrypt"
  /\ Threw(result)

\* C9: reading key on an instance with no key set fails with the error
\* "Key is not set." and leaves the instance with no key and no password.
C9_GetKeyWithoutKey ==
  (call.op = "getKey" /\ call.key0 = Null) =>
    /\ result.err = KeyNotSet
    /\ _key = Null
    /\ _password = Null

\* C10: once randomKey or a successful assignment to key or password has
\* installed a key, a key is set in every later state, and in every state a
\* stored password implies a key is set.
C10_KeyNeverAbsentAgain ==
  /\ installed => _key # Null
  /\ _password # Null => _key # Null

C10_Witness ==
  /\ installed
  /\ _password # Null
  /\ call.op = "loadJSONFromFile"
  /\ Threw(result)

====
